---- MODULE Spec2Model ----
(***************************************************************************)
(* A model of reconcile.py: the OpenRefine reconciliation service for the  *)
(* id.loc.gov suggest2 API.  One request to the route "/" is modelled as   *)
(* a run of reconcile(): the form field `queries`, the loop over the batch *)
(* entries with one call of search() per entry, and the response.          *)
(***************************************************************************)
EXTENDS Naturals, Sequences, FiniteSets, TLC

VARIABLES
    queries,    \* request.form.get('queries'), and its json.loads value
    upstream,   \* what id.loc.gov answers to the call made for the i-th entry
    pc,         \* position in reconcile(): "start", "loop", "done"
    idx,        \* position of the for loop in queries.items()
    results,    \* the dict `results` of reconcile()
    calls,      \* the URLs passed to requests.get, in order
    response,   \* what the route returns
    matcher     \* the SequenceMatcher fuzzywuzzy imported in this installation

vars == <<queries, upstream, pc, idx, results, calls, response, matcher>>

\* Python's None, the value of dict.get for a missing key (and of JSON null),
\* and a value that is present.  No string is None.
None == <<>>

Some(x) == <<x>>

-----------------------------------------------------------------------------
(* The vocabulary registry, lines 39-194.                                  *)

NamesMember == "http://id.loc.gov/authorities/names/collection_NamesAuthorizedHeadings"

SubjectsMember == "http://id.loc.gov/authorities/subjects/collection_LCSHAuthorizedHeadings"

default_query ==
    [id |-> "LoC", name |-> "LCNAF & LCSH", index |-> "/authorities"]

LcEntry(i, n, x, m, t) == [id |-> i, name |-> n, index |-> x, member |-> m, type |-> t]

refine_to_lc_table == <<
    LcEntry("Names--All", "Library of Congress Name Authority File",
            "/authorities/names", NamesMember, ""),
    LcEntry("Names--Personal", "Library of Congress Name Authority File--Personal names only",
            "/authorities/names", NamesMember, "PersonalName"),
    LcEntry("Names--Corporate", "Library of Congress Name Authority File--Corporate names only",
            "/authorities/names", NamesMember, "CorporateName"),
    LcEntry("Names--Conference", "Library of Congress Name Authority File--Conference names only",
            "/authorities/names", NamesMember, "ConferenceName"),
    LcEntry("Names--Geographic", "Library of Congress Name Authority File--Geographic names only",
            "/authorities/names", NamesMember, "Geographic"),
    LcEntry("Names--Titles", "Library of Congress Name Authority File--Titles only",
            "/authorities/names", NamesMember, "Title"),
    LcEntry("Names--Name-Titles", "Library of Congress Name Authority File--Name-Titles only",
            "/authorities/names", NamesMember, "NameTitle"),
    LcEntry("Subjects--All", "Library of Congress Subject Headings",
            "/authorities/subjects", SubjectsMember, ""),
    LcEntry("Subjects--Topics", "Library of Congress Subject Headings--Topics only",
            "/authorities/subjects", SubjectsMember, "Topic"),
    LcEntry("Subjects--Geographic", "Library of Congress Subject Headings--Geographics only",
            "/authorities/subjects", SubjectsMember, "Geographic"),
    LcEntry("Subjects--Families", "Library of Congress Subject Headings--Families only",
            "/authorities/subjects", SubjectsMember, "FamilyName"),
    LcEntry("Subjects--Corporate", "Library of Congress Subject Headings--Corporate bodies only",
            "/authorities/subjects", SubjectsMember, "CorporateName"),
    LcEntry("LCGFT", "Library of Congress Genre/Form Terms",
            "/authorities/genreForms", "", ""),
    LcEntry("TGM", "Thesaurus for Graphic Materials",
            "/vocabulary/graphicMaterials", "", ""),
    LcEntry("RBMSCV", "RBMS Controlled Vocabulary for Rare Materials Cataloging",
            "/vocabulary/rbmscv", "", ""),
    LcEntry("LCDGT", "Library of Congress Demographic Group Terms",
            "/authorities/demographicTerms", "", ""),
    LcEntry("MARCLang", "MARC Languages",
            "/vocabulary/languages", "", ""),
    LcEntry("ISO639-2Lang", "ISO 639-2 Languages",
            "/vocabulary/iso639-2", "", ""),
    LcEntry("Relators", "MARC relators",
            "/vocabulary/relators", "", ""),
    LcEntry("RBMS-Relators", "Rare Books and Manuscripts Relationship Designators",
            "/vocabulary/rbmsrel", "", ""),
    LcEntry("LCMPT", "Library of Congress Medium of Performance Thesaurus for Music",
            "/authorities/performanceMediums", "", "")
>>

\* refine_to_lc.append(default_query): the default entry is the last one, and
\* it has no 'member' and no 'type' key.
refine_to_lc == Append(refine_to_lc_table, default_query)

\* [{'id': item['id'], 'name': item['name']} for item in refine_to_lc]
query_types ==
    [i \in 1..Len(refine_to_lc) |->
        [id |-> refine_to_lc[i].id, name |-> refine_to_lc[i].name]]

metadata ==
    [name            |-> "LoC Reconciliation Service",
     defaultTypes    |-> query_types,
     identifierSpace |-> "http://localhost/identifier",
     schemaSpace     |-> "http://localhost/schema",
     view            |-> [url |-> "{{id}}"]]

RegistryIds == {refine_to_lc[i].id : i \in 1..Len(refine_to_lc)}

-----------------------------------------------------------------------------
(* Strings.  The query texts of the model are the members of RawQueries,   *)
(* the candidate labels the members of Labels; the string functions the    *)
(* code calls are tabulated on them.                                       *)

RawQueries == {"", " Paris ", "Mark Twain", "Paris Texas"}

Labels ==
    {"", "Paris", "Twain, Mark", "Paris (France)", "Paris (Texas)",
     "Parish (Texas)", "Pars (Texas)"}

\* text.normalize(raw_query, PY3): the helper module `text` of the repository.
\* It lower-cases, drops diacritical marks and symbols, turns whitespace and
\* hyphens into single spaces and trims.
Normalize(raw) ==
    CASE raw = ""            -> ""
      [] raw = " Paris "     -> "paris"
      [] raw = "Mark Twain"  -> "mark twain"
      [] raw = "Paris Texas" -> "paris texas"

\* str.strip()
Strip(s) ==
    CASE s = ""            -> ""
      [] s = "paris"       -> "paris"
      [] s = "mark twain"  -> "mark twain"
      [] s = "paris texas" -> "paris texas"

\* urllib.parse.quote(query.encode('utf8')): a space becomes %20.
Quote(s) ==
    CASE s = ""            -> ""
      [] s = "paris"       -> "paris"
      [] s = "mark twain"  -> "mark%20twain"
      [] s = "paris texas" -> "paris%20texas"

\* fuzzywuzzy's _process_and_sort: lower-case, non-alphanumerics to spaces,
\* strip, then the whitespace tokens sorted and joined by one space.  The
\* result is given as its sequence of characters.
ProcessAndSort(s) ==
    CASE s = ""               -> <<>>
      [] s = "paris"          -> <<"p", "a", "r", "i", "s">>
      [] s = "mark twain"     -> <<"m", "a", "r", "k", " ", "t", "w", "a", "i", "n">>
      [] s = "paris texas"    -> <<"p", "a", "r", "i", "s", " ", "t", "e", "x", "a", "s">>
      [] s = "Paris"          -> <<"p", "a", "r", "i", "s">>
      [] s = "Twain, Mark"    -> <<"m", "a", "r", "k", " ", "t", "w", "a", "i", "n">>
      [] s = "Paris (France)" -> <<"f", "r", "a", "n", "c", "e", " ", "p", "a", "r", "i", "s">>
      [] s = "Paris (Texas)"  -> <<"p", "a", "r", "i", "s", " ", "t", "e", "x", "a", "s">>
      [] s = "Parish (Texas)" -> <<"p", "a", "r", "i", "s", "h", " ", "t", "e", "x", "a", "s">>
      [] s = "Pars (Texas)"   -> <<"p", "a", "r", "s", " ", "t", "e", "x", "a", "s">>

\* difflib's autojunk: when b has 200 elements or more, the elements that
\* occur more than Len(b) \div 100 + 1 times are left out of the index b2j.
Popular(b) ==
    IF Len(b) < 200 THEN {}
    ELSE {x \in {b[k] : k \in 1..Len(b)} :
            Cardinality({k \in 1..Len(b) : b[k] = x}) > (Len(b) \div 100) + 1}

\* The length of the common block that starts at a[i], b[j] and holds no
\* element of `skip`.
RECURSIVE CommonRun(_, _, _, _, _, _, _)
CommonRun(a, i, ahi, b, j, bhi, skip) ==
    IF i > ahi \/ j > bhi THEN 0
    ELSE IF a[i] # b[j] \/ b[j] \in skip THEN 0
    ELSE 1 + CommonRun(a, i + 1, ahi, b, j + 1, bhi, skip)

\* How far a block starting at a[i], b[j] extends to the left.
RECURSIVE CommonRunBack(_, _, _, _, _, _)
CommonRunBack(a, i, alo, b, j, blo) ==
    IF i <= alo \/ j <= blo THEN 0
    ELSE IF a[i - 1] # b[j - 1] THEN 0
    ELSE 1 + CommonRunBack(a, i - 1, alo, b, j - 1, blo)

\* difflib's SequenceMatcher.find_longest_match on a[alo..ahi], b[blo..bhi]:
\* the longest common block over the indexed elements of b, of those the one
\* starting earliest in a, of those the one starting earliest in b (a[alo],
\* b[blo] with size 0 when there is none); then the block is extended on
\* both sides by equal elements, indexed or not.
LongestMatch(a, alo, ahi, b, blo, bhi) ==
    LET starts == (alo..ahi) \X (blo..bhi)
        popular == Popular(b)
        size(p) == CommonRun(a, p[1], ahi, b, p[2], bhi, popular)
        best == CHOOSE p \in starts :
                    \A q \in starts :
                        \/ size(p) > size(q)
                        \/ size(p) = size(q) /\ p[1] < q[1]
                        \/ size(p) = size(q) /\ p[1] = q[1] /\ p[2] <= q[2]
        back == CommonRunBack(a, best[1], alo, b, best[2], blo)
        fwd  == CommonRun(a, best[1] + size(best), ahi, b, best[2] + size(best), bhi, {})
    IN  [i |-> best[1] - back, j |-> best[2] - back, size |-> back + size(best) + fwd]

\* The sum of the sizes of SequenceMatcher.get_matching_blocks(): the longest
\* match, then the same to its left and to its right.
RECURSIVE Matches(_, _, _, _, _, _)
Matches(a, alo, ahi, b, blo, bhi) ==
    IF alo > ahi \/ blo > bhi THEN 0
    ELSE LET m == LongestMatch(a, alo, ahi, b, blo, bhi)
         IN  IF m.size = 0 THEN 0
             ELSE m.size
                  + Matches(a, alo, m.i - 1, b, blo, m.j - 1)
                  + Matches(a, m.i + m.size, ahi, b, m.j + m.size, bhi)

\* One row of the longest-common-subsequence table: cur[j + 1] is the length
\* for the prefix of a ending in ai and the first j elements of b.
RECURSIVE LcsRow(_, _, _, _)
LcsRow(prev, ai, b, cur) ==
    IF Len(cur) = Len(b) + 1 THEN cur
    ELSE LET j == Len(cur)
             v == IF ai = b[j] THEN prev[j] + 1
                  ELSE IF prev[j + 1] > cur[j] THEN prev[j + 1] ELSE cur[j]
         IN  LcsRow(prev, ai, b, Append(cur, v))

RECURSIVE LcsRows(_, _, _, _)
LcsRows(a, i, b, prev) ==
    IF i > Len(a) THEN prev[Len(b) + 1]
    ELSE LcsRows(a, i + 1, b, LcsRow(prev, a[i], b, <<0>>))

\* python-Levenshtein's ratio is (lensum - ldist) / lensum with a substitution
\* counted as 2, which is 2 * LCS / lensum: the number of matched elements is
\* the length of the longest common subsequence.
LcsLength(a, b) == LcsRows(a, 1, b, [j \in 1..(Len(b) + 1) |-> 0])

\* The SequenceMatcher fuzzywuzzy imports: python-Levenshtein's StringMatcher
\* when that package is installed, difflib's otherwise.
Matchers == {"difflib", "levenshtein"}

\* utils.intr(100 * ratio) with ratio the double 2.0 * matches / length:
\* int(round(x)).  Off a half the nearest integer; on a half Python 3 rounds
\* to the even integer, and the product is a half in double arithmetic for
\* every half but two: 100 * 0.545 is 54.50000000000001 and 100 * 0.575 is
\* 57.49999999999999.
RoundedPercent(matches, length) ==
    LET q == (200 * matches) \div length
        r == (200 * matches) % length
    IN  IF 2 * r > length THEN q + 1
        ELSE IF 2 * r < length THEN q
        ELSE IF q = 54 THEN 55
        ELSE IF q = 57 THEN 57
        ELSE IF q % 2 = 0 THEN q ELSE q + 1

\* fuzz.ratio(s1, s2) after its decorators: equal strings give 100, an empty
\* string gives 0, otherwise the rounded ratio of the matcher m.
Ratio(m, s1, s2) ==
    IF s1 = s2 THEN 100
    ELSE IF Len(s1) = 0 \/ Len(s2) = 0 THEN 0
    ELSE IF m = "difflib"
    THEN RoundedPercent(Matches(s1, 1, Len(s1), s2, 1, Len(s2)), Len(s1) + Len(s2))
    ELSE RoundedPercent(LcsLength(s1, s2), Len(s1) + Len(s2))

\* The ratio of every processed query against every processed label.
RatioTable ==
    [m \in Matchers, q \in {Strip(Normalize(raw)) : raw \in RawQueries}, l \in Labels |->
        Ratio(m, ProcessAndSort(q), ProcessAndSort(l))]

\* fuzz.token_sort_ratio(query, name): 0 when the label is None, otherwise
\* the ratio of the two processed strings.
TokenSortRatio(query, hit) ==
    IF hit.aLabel = None THEN 0
    ELSE RatioTable[matcher, query, hit.aLabel[1]]

-----------------------------------------------------------------------------
(* search(raw_query, query_type), lines 224-303.                           *)

MatchThreshold == 95

ResultLimit == 20

BaseUrl == "http://id.loc.gov"

\* [i for i in refine_to_lc if i['id'] == query_type]
QueryTypeMeta(query_type) ==
    SelectSeq(refine_to_lc, LAMBDA i : i.id = query_type)

\* A variant of the URL that appends each filter once.
BuildUrlOnce(query_index, query_member, query_class, query) ==
    LET url0 == BaseUrl \o query_index \o "/suggest2?q=" \o Quote(query) \o "&count=50"
        url1 == IF Len(query_member) > 0
                THEN url0 \o "&memberOf=" \o query_member
                ELSE url0
    IN  IF Len(query_class) > 0
        THEN url1 \o "&rdftype=" \o query_class
        ELSE url1

\* Lines 267-275: the URL of the suggest2 call.
BuildUrl(query_index, query_member, query_class, query) ==
    LET url0 == BaseUrl \o query_index \o "/suggest2?q=" \o Quote(query) \o "&count=50"
        url1 == IF Len(query_member) > 0
                THEN LET u == url0 \o "&memberOf=" \o query_member
                     IN  IF Len(query_class) > 0
                         THEN u \o "&rdftype=" \o query_class
                         ELSE u
                ELSE url0
        url2 == IF Len(query_class) > 0
                THEN LET u == url1 \o "&rdftype=" \o query_class
                     IN  IF Len(query_member) > 0
                         THEN u \o "&memberOf=" \o query_member
                         ELSE u
                ELSE url1
    IN  url2

\* A variant of the match test that takes the threshold itself as a match.
IsMatchAtThreshold(score) == score >= MatchThreshold

\* Line 288: if score > 95: match = True
IsMatch(score) == score > MatchThreshold

\* Lines 284-297: the resource built for one hit.  `type` is query_type_meta,
\* the list the comprehension of line 227 returned.
Resource(query, hit, query_type_meta) ==
    LET score == TokenSortRatio(query, hit)
    IN  [id    |-> hit.uri,
         name  |-> hit.aLabel,
         score |-> score,
         match |-> IsMatch(score),
         type  |-> query_type_meta]

\* Line 290: "Label is " + name + ... + " URI is " + uri is evaluated for
\* every hit; str + None raises TypeError.
DebugLineRaises(hit) == hit.aLabel = None \/ hit.uri = None

\* A variant of the sort that reverses an ascending sort: equal scores end in
\* the opposite of their order in `out`.
InsertBeforeTies(s, x) ==
    LET k == Cardinality({i \in 1..Len(s) : s[i].score > x.score})
    IN  SubSeq(s, 1, k) \o <<x>> \o SubSeq(s, k + 1, Len(s))

\* sorted(out, key=itemgetter('score'), reverse=True): a stable sort, equal
\* scores keep the order of `out`.  Each element goes after the elements
\* already placed whose score is at least its own.
InsertByScore(s, x) ==
    LET k == Cardinality({i \in 1..Len(s) : s[i].score >= x.score})
    IN  SubSeq(s, 1, k) \o <<x>> \o SubSeq(s, k + 1, Len(s))

RECURSIVE SortedByScore(_)
SortedByScore(out) ==
    IF out = <<>> THEN <<>>
    ELSE InsertByScore(SortedByScore(SubSeq(out, 1, Len(out) - 1)), out[Len(out)])

\* sorted_out[:20]
Truncate(s) == SubSeq(s, 1, IF Len(s) < ResultLimit THEN Len(s) ELSE ResultLimit)

\* The outcome of one call of search: the exception it raises (None when it
\* returns), the list it returns, and the URLs it passed to requests.get.
\* `up` is the upstream's answer to the call: kind "neterr" (requests.get
\* raises), "nonjson" (resp.json() raises), "nohits" (results['hits'] raises
\* KeyError) or "ok" with the hits.  The except clause of line 280 catches
\* getopt.GetoptError only, which none of these is.
Search(raw_query, query_type, up) ==
    LET query == Strip(Normalize(raw_query))
        query_type_meta == QueryTypeMeta(query_type)
        Raise(exc, urls) == [raised |-> Some(exc), out |-> <<>>, urls |-> urls]
    IN  IF query_type_meta = <<>>
        THEN Raise("IndexError", <<>>)                       \* line 228
        ELSE IF "member" \notin DOMAIN query_type_meta[1]
        THEN Raise("KeyError", <<>>)                         \* line 229
        ELSE
        LET url == BuildUrl(query_type_meta[1].index, query_type_meta[1].member,
                            query_type_meta[1].type, query)
        IN  IF up.kind = "neterr" THEN Raise("ConnectionError", <<url>>)    \* line 277
            ELSE IF up.kind = "nonjson" THEN Raise("JSONDecodeError", <<url>>) \* line 278
            ELSE IF up.kind = "nohits" THEN Raise("KeyError", <<url>>)      \* line 279
            ELSE IF \E n \in 1..Len(up.hits) : DebugLineRaises(up.hits[n])
            THEN Raise("TypeError", <<url>>)                 \* line 290
            ELSE
            LET \* lines 231-232, after the subscripts of lines 228-230
                type_meta == IF query_type_meta = <<>> THEN default_query
                             ELSE query_type_meta
                out == [n \in 1..Len(up.hits) |->
                            Resource(query, up.hits[n], type_meta)]
            IN  [raised |-> None,
                 out    |-> Truncate(SortedByScore(out)),
                 urls   |-> <<url>>]

-----------------------------------------------------------------------------
(* The request and the upstream: the inputs of one run.                    *)

\* Largest batch of the batch specification.
MaxBatch == 2

\* Longest hit list enumerated in full.
MaxHits == 2

\* How far past the result limit the long hit lists go.
ExtraHits == 2

\* request.form.get('queries'): absent (None), the empty string, or a JSON
\* text, kept with the dict json.loads makes of it (a sequence of entries in
\* insertion order).  An entry's type is None when the entry has no 'type'.
Absent == [kind |-> "absent", batch |-> <<>>]

EmptyString == [kind |-> "empty", batch |-> <<>>]

Json(batch) == [kind |-> "json", batch |-> batch]

Key(i) == "q" \o ToString(i - 1)

Failures == {[kind |-> k, hits |-> <<>>] : k \in {"neterr", "nonjson", "nohits"}}

Ok(hits) == [kind |-> "ok", hits |-> hits]

Hit(label, uri) == [aLabel |-> label, uri |-> uri]

TwoHits ==
    << Hit(Some("Paris (France)"), Some("http://id.loc.gov/authorities/names/n79076241")),
       Hit(Some("Twain, Mark"), Some("http://id.loc.gov/authorities/names/n79021164")) >>

BatchTypes == {None} \cup {Some(t) : t \in {"bogus", "LoC", "Names--Personal", "LCGFT"}}

BatchQueries == {" Paris ", "Mark Twain"}

\* A hit without aLabel, as the upstream sends for a record with no label.
NoLabelHit == <<Hit(None, Some("http://id.loc.gov/authorities/names/n1"))>>

BatchUpstreams == Failures \cup {Ok(<<>>), Ok(TwoHits), Ok(NoLabelHit)}

\* Every type identifier of the registry, some that are not, and no type.
AllTypes == {None} \cup {Some(t) : t \in RegistryIds \cup {"", "bogus", "/lc", "None"}}

\* Hits with a missing or empty label, a missing uri, and labels that score
\* on both sides of the threshold against "Paris Texas".
ShortHits ==
    {Hit(l, u) : l \in {None, Some(""), Some("Pars (Texas)"), Some("Parish (Texas)")},
                 u \in {None, Some("http://id.loc.gov/authorities/names/n1")}}

ShortHitLists == UNION {[1..n -> ShortHits] : n \in 0..MaxHits}

\* One well-formed hit for every label.
LabelHitLists ==
    {<<Hit(Some(l), Some("http://id.loc.gov/authorities/names/n79021164"))>> : l \in Labels}

\* The label of hit j in the long lists: one label throughout, the labels in
\* rotation, two labels around the threshold in rotation.
PatternLabel(p, j) ==
    CASE p = 1 -> "Paris (France)"
      [] p = 2 -> << "Paris", "Paris (Texas)", "Twain, Mark", "Pars (Texas)",
                     "Paris (France)", "Parish (Texas)", "" >>[(j % 7) + 1]
      [] p = 3 -> << "Pars (Texas)", "Parish (Texas)" >>[(j % 2) + 1]

\* Well-formed hit lists up to ExtraHits past the limit, each hit with its
\* own uri.
LongHitLists ==
    {[j \in 1..n |-> Hit(Some(PatternLabel(p, j)), Some("u" \o ToString(j)))] :
        n \in 0..(ResultLimit + ExtraHits), p \in 1..3}

WideTypes == {Some("Names--Personal"), Some("LCGFT")}

WideHitLists == ShortHitLists \cup LabelHitLists \cup LongHitLists

-----------------------------------------------------------------------------
(* reconcile(), lines 307-324.                                             *)

\* A variant of the test that takes every value but None as a batch.
TruthyNotNone(q) == q.kind # "absent"

\* `if queries:` on the form value: None and "" are falsy, any other text
\* (the text "{}" too) is truthy.
Truthy(q) == q.kind = "json"

\* results[key] = {"result": data}
StoreResult(res, key, data) == (key :> [result |-> data]) @@ res

NoResponse == [kind |-> "none", body |-> None]

MetadataResponse == [kind |-> "metadata", body |-> metadata]

ResultsResponse(res) == [kind |-> "results", body |-> res]

\* An exception that leaves reconcile(): the route answers with an error
\* (HTTP 500) and no JSON body.
ErrorResponse(exc) == [kind |-> "error", body |-> exc]

Start ==
    /\ pc = "start"
    /\ idx = 0
    /\ results = <<>>
    /\ calls = <<>>
    /\ response = NoResponse
    /\ matcher \in Matchers

\* Batches of up to MaxBatch entries over a few types, queries and answers.
Init ==
    /\ Start
    /\ \/ queries \in {Absent, EmptyString} /\ upstream = <<>>
       \/ \E n \in 0..MaxBatch :
          \E es \in [1..n -> BatchTypes \X BatchQueries \X BatchUpstreams] :
             /\ queries = Json([i \in 1..n |->
                    [key |-> Key(i), query |-> es[i][2], type |-> es[i][1]]])
             /\ upstream = [i \in 1..n |-> es[i][3]]

\* One entry: every type with a few answers, and a few types with every
\* hit list.
InitSearch ==
    /\ Start
    /\ \/ queries \in {Absent, EmptyString} /\ upstream = <<>>
       \/ \E t \in AllTypes, q \in RawQueries, up \in BatchUpstreams :
             /\ queries = Json(<<[key |-> Key(1), query |-> q, type |-> t]>>)
             /\ upstream = <<up>>
       \/ \E t \in WideTypes, q \in RawQueries, h \in WideHitLists :
             /\ queries = Json(<<[key |-> Key(1), query |-> q, type |-> t]>>)
             /\ upstream = <<Ok(h)>>

\* Lines 311-312, 324: no batch, the metadata.
ReturnMetadata ==
    /\ pc = "start"
    /\ ~Truthy(queries)
    /\ response' = MetadataResponse
    /\ pc' = "done"
    /\ UNCHANGED <<queries, upstream, idx, results, calls, matcher>>

\* Lines 312-315: json.loads, results = {}, the loop starts.
LoadQueries ==
    /\ pc = "start"
    /\ Truthy(queries)
    /\ results' = <<>>
    /\ idx' = 1
    /\ pc' = "loop"
    /\ UNCHANGED <<queries, upstream, calls, response, matcher>>

\* Lines 316-318: an entry without a type ends the request with the metadata.
EntryWithoutType ==
    /\ pc = "loop"
    /\ idx <= Len(queries.batch)
    /\ queries.batch[idx].type = None
    /\ response' = MetadataResponse
    /\ pc' = "done"
    /\ UNCHANGED <<queries, upstream, idx, results, calls, matcher>>

\* Lines 319-320: search returns, its list is stored under the entry's key.
EntrySearched ==
    /\ pc = "loop"
    /\ idx <= Len(queries.batch)
    /\ queries.batch[idx].type # None
    /\ LET query == queries.batch[idx]
           data  == Search(query.query, query.type[1], upstream[idx])
       IN  /\ data.raised = None
           /\ results' = StoreResult(results, query.key, data.out)
           /\ calls' = calls \o data.urls
    /\ idx' = idx + 1
    /\ UNCHANGED <<queries, upstream, pc, response, matcher>>

\* Line 319: search raises, nothing in reconcile catches it.
EntrySearchRaises ==
    /\ pc = "loop"
    /\ idx <= Len(queries.batch)
    /\ queries.batch[idx].type # None
    /\ LET query == queries.batch[idx]
           data  == Search(query.query, query.type[1], upstream[idx])
       IN  /\ data.raised # None
           /\ response' = ErrorResponse(data.raised[1])
           /\ calls' = calls \o data.urls
    /\ pc' = "done"
    /\ UNCHANGED <<queries, upstream, idx, results, matcher>>

\* Line 321: the loop is over, the results.
ReturnResults ==
    /\ pc = "loop"
    /\ idx > Len(queries.batch)
    /\ response' = ResultsResponse(results)
    /\ pc' = "done"
    /\ UNCHANGED <<queries, upstream, idx, results, calls, matcher>>

Next ==
    \/ ReturnMetadata
    \/ LoadQueries
    \/ EntryWithoutType
    \/ EntrySearched
    \/ EntrySearchRaises
    \/ ReturnResults

Spec == Init /\ [][Next]_vars

SpecSearch == InitSearch /\ [][Next]_vars

-----------------------------------------------------------------------------
(* Properties.                                                             *)

Done == pc = "done"

Batch == queries.batch

\* The request holds exactly one entry, with a type.
OneEntry == queries.kind = "json" /\ Len(Batch) = 1 /\ Batch[1].type # None

\* The upstream answered with a hits array whose hits all have aLabel and uri.
WellFormed(up) ==
    /\ up.kind = "ok"
    /\ \A n \in 1..Len(up.hits) : up.hits[n].aLabel # None /\ up.hits[n].uri # None

\* The URL the specification gives for a registry entry: an absent filter is
\* no filter.
ExpectedUrl(entry, raw_query) ==
    LET M == IF "member" \in DOMAIN entry THEN entry.member ELSE ""
        C == IF "type" \in DOMAIN entry THEN entry.type ELSE ""
        head == "http://id.loc.gov" \o entry.index \o "/suggest2?q="
                    \o Quote(Strip(Normalize(raw_query))) \o "&count=50"
        filters ==
            CASE M = "" /\ C = "" -> ""
              [] M # "" /\ C = "" -> "&memberOf=" \o M
              [] M = "" /\ C # "" -> "&rdftype=" \o C
              [] OTHER -> "&memberOf=" \o M \o "&rdftype=" \o C
                              \o "&rdftype=" \o C \o "&memberOf=" \o M
    IN  head \o filters

\* C1: a query whose type matches no registry entry is searched in the
\* default vocabulary (/authorities, no filters) and the request is answered
\* with a result list, never with an error.
C1_UnknownTypeUsesDefault ==
    (Done /\ OneEntry /\ Batch[1].type[1] \notin RegistryIds /\ WellFormed(upstream[1]))
        => /\ response.kind = "results"
           /\ calls = <<ExpectedUrl(default_query, Batch[1].query)>>

\* C2: in a batch of several typed entries, an entry whose upstream call
\* fails maps to an empty result list, every other key maps to the result of
\* its own upstream answer, and the request is not answered with an error.
C2_UpstreamFailureIsolated ==
    (/\ Done
     /\ queries.kind = "json"
     /\ Len(Batch) >= 2
     /\ \A i \in 1..Len(Batch) :
            /\ Batch[i].type # None
            /\ Batch[i].type[1] \in RegistryIds \ {"LoC"}
            /\ upstream[i] \in Failures \/ WellFormed(upstream[i])
     /\ \E i \in 1..Len(Batch) : upstream[i] \in Failures)
        => /\ response.kind = "results"
           /\ DOMAIN response.body = {Batch[i].key : i \in 1..Len(Batch)}
           /\ \A i \in 1..Len(Batch) :
                response.body[Batch[i].key].result =
                    IF upstream[i] \in Failures THEN <<>>
                    ELSE Search(Batch[i].query, Batch[i].type[1], upstream[i]).out

\* C3: every type advertised in metadata.defaultTypes, "LoC" included, is
\* answered with a result list under the entry's key, searched in the
\* registered entry with an absent filter taken as no filter.
C3_AdvertisedTypeAnswered ==
    \A t \in 1..Len(metadata.defaultTypes) :
        (Done /\ OneEntry /\ Batch[1].type = Some(metadata.defaultTypes[t].id)
              /\ WellFormed(upstream[1]))
            => /\ response.kind = "results"
               /\ DOMAIN response.body = {Batch[1].key}
               /\ calls = <<ExpectedUrl(refine_to_lc[t], Batch[1].query)>>

\* C4: a non-empty batch with an entry without a type is answered with the
\* metadata object, wherever the entry is and whatever the upstream answers
\* for the other entries.
C4_MissingTypeGivesMetadata ==
    (Done /\ queries.kind = "json" /\ \E i \in 1..Len(Batch) : Batch[i].type = None)
        => response = MetadataResponse

\* C5 as claimed: a request with no batch (queries absent, the empty string,
\* or an empty JSON object) is answered with the metadata object and makes
\* no upstream call.
C5_NoBatchGivesMetadata ==
    (Done /\ (queries \in {Absent, EmptyString} \/ queries = Json(<<>>)))
        => response.kind = "metadata" /\ calls = <<>>

\* C5 as amended: queries absent or the empty string is answered with the
\* metadata object (name, defaultTypes, identifierSpace, schemaSpace, view);
\* an empty JSON object is answered with an empty result mapping; neither
\* makes an upstream call.
C5_AbsentOrEmptyStringGivesMetadata ==
    /\ (Done /\ queries \in {Absent, EmptyString})
        => /\ response.kind = "metadata"
           /\ DOMAIN response.body =
                {"name", "defaultTypes", "identifierSpace", "schemaSpace", "view"}
           /\ response.body.name = "LoC Reconciliation Service"
           /\ Len(response.body.defaultTypes) = Len(refine_to_lc)
           /\ response.body.identifierSpace = "http://localhost/identifier"
           /\ response.body.schemaSpace = "http://localhost/schema"
           /\ response.body.view = [url |-> "{{id}}"]
           /\ calls = <<>>
    /\ (Done /\ queries = Json(<<>>))
        => /\ response.kind = "results"
           /\ response.body = <<>>
           /\ calls = <<>>

C5_Witness ==
    Done /\ queries = EmptyString /\ response.kind = "metadata"

\* The place of hit j in the stable sort by descending score: after every
\* hit with a greater score and every earlier hit with the same score.
Place(query, hits, j) ==
    Cardinality({i \in 1..Len(hits) :
        \/ TokenSortRatio(query, hits[i]) > TokenSortRatio(query, hits[j])
        \/ TokenSortRatio(query, hits[i]) = TokenSortRatio(query, hits[j]) /\ i <= j})

\* The result list stored for the single entry of the request.
OnlyResult == response.body[Batch[1].key].result

\* C6: the list search returns for n hits has min(n, 20) elements, scores
\* non-increasing, and is the head of the stable sort of the candidates by
\* descending score: equal scores keep their upstream order.
C6_ResultIsHeadOfStableSort ==
    (Done /\ OneEntry /\ response.kind = "results")
        => LET hits  == upstream[1].hits
               query == Strip(Normalize(Batch[1].query))
               n     == Len(hits)
           IN  /\ Len(OnlyResult) = IF n < 20 THEN n ELSE 20
               /\ Len(OnlyResult) <= 20
               /\ \A i \in 1..(Len(OnlyResult) - 1) :
                      OnlyResult[i].score >= OnlyResult[i + 1].score
               /\ \A j \in 1..n :
                      Place(query, hits, j) <= 20 =>
                          /\ OnlyResult[Place(query, hits, j)].id = hits[j].uri
                          /\ OnlyResult[Place(query, hits, j)].name = hits[j].aLabel
                          /\ OnlyResult[Place(query, hits, j)].score =
                                 TokenSortRatio(query, hits[j])

\* More than 20 hits, cut to 20, with distinct and with equal scores.
C6_Witness ==
    /\ Done /\ OneEntry /\ response.kind = "results"
    /\ Len(upstream[1].hits) > 20
    /\ Len(OnlyResult) = 20
    /\ OnlyResult[1].score > OnlyResult[20].score
    /\ \E i \in 1..19 : OnlyResult[i].score = OnlyResult[i + 1].score

\* C7: the URL requested for a registry entry is base + index +
\* "/suggest2?q=" + encoded query + "&count=50", then nothing, memberOf once,
\* rdftype once, or memberOf, rdftype, rdftype, memberOf, by the filters set.
C7_UrlForm ==
    \A t \in 1..Len(refine_to_lc) :
        (Done /\ OneEntry /\ Batch[1].type = Some(refine_to_lc[t].id))
            => /\ "member" \in DOMAIN refine_to_lc[t] => calls # <<>>
               /\ calls # <<>> => calls = <<ExpectedUrl(refine_to_lc[t], Batch[1].query)>>

\* Both filters set: each appears twice.
C7_Witness ==
    /\ Done /\ OneEntry
    /\ Batch[1].type = Some("Names--Personal")
    /\ calls = << "http://id.loc.gov/authorities/names/suggest2?q=mark%20twain&count=50"
                  \o "&memberOf=http://id.loc.gov/authorities/names/collection_NamesAuthorizedHeadings"
                  \o "&rdftype=PersonalName&rdftype=PersonalName"
                  \o "&memberOf=http://id.loc.gov/authorities/names/collection_NamesAuthorizedHeadings" >>

\* C8: hits without aLabel, with an empty aLabel or without uri do not make
\* search raise, and a hit with a missing or empty label gives no candidate
\* with a score above 0 or match = true.
C8_MissingFieldsTolerated ==
    (Done /\ OneEntry /\ Batch[1].type[1] \in RegistryIds \ {"LoC"}
          /\ upstream[1].kind = "ok")
        => /\ response.kind = "results"
           /\ \A i \in 1..Len(OnlyResult) :
                  OnlyResult[i].name \in {None, Some("")} =>
                      OnlyResult[i].score = 0 /\ ~OnlyResult[i].match

\* C9: a candidate of a returned list has match = true exactly when its
\* score is above 95, and its score is in 0..100; the test of line 288 gives
\* true for exactly the scores above 95 among 0..100.
C9_MatchIffAbove95 ==
    /\ \A score \in 0..100 : IsMatch(score) <=> (score > 95)
    /\ (Done /\ response.kind = "results")
        => \A k \in DOMAIN response.body :
           \A i \in 1..Len(response.body[k].result) :
              LET c == response.body[k].result[i]
              IN  /\ c.score \in 0..100
                  /\ c.match <=> (c.score > 95)

\* A candidate with score 95 and no match next to one with 96 and a match.
C9_Witness ==
    /\ Done /\ OneEntry /\ response.kind = "results"
    /\ \E i, j \in 1..Len(OnlyResult) :
          /\ OnlyResult[i].score = 95 /\ ~OnlyResult[i].match
          /\ OnlyResult[j].score = 96 /\ OnlyResult[j].match

\* C10: when every entry has a type and every upstream call succeeds, the
\* response has the keys of the batch, and under each key the result of that
\* key's own query text, type and upstream answer.
C10_ResultsKeyedByOwnQuery ==
    (/\ Done
     /\ queries.kind = "json"
     /\ \A i \in 1..Len(Batch) : Batch[i].type # None /\ upstream[i].kind = "ok")
        => /\ response.kind = "results"
           /\ DOMAIN response.body = {Batch[i].key : i \in 1..Len(Batch)}
           /\ \A i \in 1..Len(Batch) :
                response.body[Batch[i].key].result =
                    Search(Batch[i].query, Batch[i].type[1], upstream[i]).out

====
